---- MODULE Spec2Model ----
(***************************************************************************)
(* The two-tank simulation engine (simulation_api/data_generator.py) and   *)
(* the API process that drives it (main.py): the refresh loop, the manual  *)
(* control commands and the per-tank read.                                 *)
(*                                                                         *)
(* Numbers are fixed point.  A level is kept in units of 1/6000 cm and a   *)
(* chlorine value in units of 1/6000 ppm, so that a rate given per hour    *)
(* and applied for a whole number of minutes is a whole number of units:   *)
(*   (r cm/hour / 60) * td minutes, with r in tenths, is r*10*td units;    *)
(*   (d ppm/hour / 60) * td minutes, with d in hundredths, is d*td units.  *)
(* Times are in refresh periods.                                           *)
(***************************************************************************)
EXTENDS Integers, Sequences, FiniteSets, TLC

VARIABLES
    tank_states,            \* sensor_generator.tank_states
    manual_controls,        \* main.manual_controls
    latest_readings_cache,  \* main.latest_readings_cache
    last_update,            \* main.last_update
    now,                    \* the wall clock read by datetime.now()
    env,                    \* what the wall clock gives the engine: hour of day, season factor
    pc,                     \* where the process is: startup, idle, inside generate_all_readings; engine for the engine used on its own
    task,                   \* the coroutine that is inside generate_all_readings
    readings,               \* the local list readings of generate_all_readings
    locals,                 \* locals of the last generate_tank_reading and its _simulate_* calls
    response,               \* what the entry point called last has just returned
    commands,               \* the control commands handled so far
    delay,                  \* the asyncio.sleep the refresh loop is in, in seconds; 0 when it is not asleep
    failures,               \* the ticks of the refresh loop that have raised so far
    snapshot                \* the dict a caller holds from sensor_generator.get_system_status()

vars == <<tank_states, manual_controls, latest_readings_cache, last_update, now,
          env, pc, task, readings, locals, response, commands, delay, failures,
          snapshot>>

\* Units per centimetre and per ppm.
Cm == 60 * 100
Ppm == 60 * 100

\* ------------------------------------------------------------------ bounds
\* Refresh ticks of a run of the API process.
MaxTicks == 1
\* Control commands handled in a run of the API process.
MaxCommands == 2
\* Engine calls of a run of the engine on its own.
MaxSteps == 3
\* Ticks of the refresh loop that raise an exception.
MaxFailures == 1

\* ---------------------------------------------------------- configuration
TankIds == {"tank_a", "tank_b"}

TANK_CONFIGS ==
    [tank_a |-> [tank_id |-> "tank_a", name |-> "Cisterna", capacity_m3 |-> 50,
                 max_height_cm |-> 180 * Cm, min_height_cm |-> 20 * Cm,
                 has_chlorine_sensor |-> FALSE, normal_consumption_rate |-> 25],
     tank_b |-> [tank_id |-> "tank_b", name |-> "Tanque 150", capacity_m3 |-> 150,
                 max_height_cm |-> 300 * Cm, min_height_cm |-> 30 * Cm,
                 has_chlorine_sensor |-> TRUE, normal_consumption_rate |-> 80]]

\* Demand multiplier per hour of day, in tenths.
consumption_patterns ==
    [h \in 0..23 |->
        CASE h \in {0, 1, 2, 3} -> 1
          [] h \in {4, 23} -> 2
          [] h = 22 -> 4
          [] h = 5 -> 5
          [] h \in {10, 15, 21} -> 6
          [] h \in {9, 14, 16} -> 7
          [] h \in {6, 11, 20} -> 8
          [] h \in {8, 13, 17, 19} -> 9
          [] OTHER -> 10]

\* ------------------------------------------------------------ random draws
\* random.uniform(lo, hi), sampled at its two ends.
Uniform(lo, hi) == {lo, hi}

FillRateA == Uniform(20, 50)        \* cm/hour, tenths
PumpRateInCubicMetres == Uniform(150, 200)
PumpRateA == Uniform(60, 80)        \* cm/hour, tenths
FillRateB == Uniform(40, 60)        \* cm/hour, tenths
DecayRate == Uniform(5, 10)         \* ppm/hour, hundredths
DoseRateBelowDecay == Uniform(3, 5)
DoseRate == Uniform(30, 50)         \* ppm/hour, hundredths
\* Two draws never feed back into control: the sensor noise, which only
\* reaches the Readings, and the consumption variation, which only reaches
\* Tank B's level.  random.uniform(m - a, m + a) is m + a * sign: direct
\* calls of generate_tank_reading sample sign at BothEnds, every other call
\* at UpperEnd.
BothEnds == Uniform(-1, 1)
UpperEnd == {1}
Variation(signs) == {10 + 2 * sign : sign \in signs}        \* tenths
NoiseA(signs) == {2 * Cm * sign : sign \in signs}
NoiseB(signs) == {3 * Cm * sign : sign \in signs}
NoiseCl(signs) == {((5 * Ppm) \div 100) * sign : sign \in signs}

\* The wall clock of a run: datetime.now().hour, and the season factor
\* 1.0 + 0.3 * sin(time.time() / 86400) in tenths.  Neither moves within the
\* few minutes of a run: a night hour in the low season, a peak hour in the high.
LowSeason == [hour |-> 3, season |-> 7]
HighSeason == [hour |-> 12, season |-> 13]
WallClocks == {LowSeason, HighSeason}

\* ------------------------------------------------------------------ engine
Max(a, b) == IF a >= b THEN a ELSE b
Min(a, b) == IF a <= b THEN a ELSE b

\* max(lo, min(hi, x))
LimitLowOnly(lo, hi, x) == Max(lo, x)
LimitHighOnly(lo, hi, x) == Min(hi, x)
Limit(lo, hi, x) == Max(lo, Min(hi, x))

\* The constructor's tank_states; t is the time of construction.
InitialTankStates(t) ==
    [tank_a |-> [current_level_cm |-> 120 * Cm, pump_running |-> FALSE,
                 last_pump_cycle |-> t - 240, fill_rate |-> 0],
     tank_b |-> [current_level_cm |-> 200 * Cm, chlorine_ppm |-> (12 * Ppm) \div 10,
                 chlorinator_running |-> FALSE, last_chlorine_dose |-> t - 120,
                 consumption_rate |-> 0]]

\* What a _simulate_* function stores in tank_states under "Actualizar
\* estado": the limited value, not the measured one.
PersistedMeasured(current, measured) == measured
Persisted(current, measured) == current

\* base_multiplier * variation, in hundredths.
ConsumptionVariationAlone(hour, variation) ==
    (IF hour \in DOMAIN consumption_patterns THEN consumption_patterns[hour] ELSE 5)
       * (variation - 10)
GetConsumptionMultiplier(hour, variation) ==
    (IF hour \in DOMAIN consumption_patterns THEN consumption_patterns[hour] ELSE 5) * variation

\* pump_should_run and pump_should_stop of _simulate_tank_a_level.
PumpShouldRunAboveMax(current_level, max_height) == current_level > max_height
PumpShouldRun(current_level, max_height) == current_level * 100 >= max_height * 85
PumpShouldStop(current_level, max_height) == current_level * 100 <= max_height * 60

\* The pump's flag after the if/elif of _simulate_tank_a_level.
PumpFollowsUpperThreshold(should_run, should_stop, running) == should_run
PumpOnlyStops(should_run, should_stop, running) ==
    IF should_stop /\ running THEN FALSE ELSE running
PumpAfterHysteresis(should_run, should_stop, running) ==
    IF should_run /\ ~running THEN TRUE
    ELSE IF should_stop /\ running THEN FALSE
    ELSE running

\* last_pump_cycle after the if/elif: written in the off-to-on branch only.
PumpCycleNeverWritten(should_run, running, cycle, t) == cycle
PumpCycleWheneverAbove(should_run, running, cycle, t) ==
    IF should_run THEN t ELSE cycle
PumpCycleAfterHysteresis(should_run, running, cycle, t) ==
    IF should_run /\ ~running THEN t ELSE cycle

\* _simulate_tank_a_level: the new tank_states, the measured level, the locals.
SimulateTankALevel(ts, td, rate, season, pump_rate, noise, t) ==
    LET state == ts.tank_a
        config == TANK_CONFIGS.tank_a
        current_level == state.current_level_cm
        level_increase == rate * season * td
        pump_should_run == PumpShouldRun(current_level, config.max_height_cm)
        pump_should_stop == PumpShouldStop(current_level, config.max_height_cm)
        running == PumpAfterHysteresis(pump_should_run, pump_should_stop, state.pump_running)
        cycle == PumpCycleAfterHysteresis(pump_should_run, state.pump_running,
                                          state.last_pump_cycle, t)
        level_decrease == IF running THEN pump_rate * 10 * td ELSE 0
        new_level == Limit(config.min_height_cm, config.max_height_cm,
                           current_level - level_decrease + level_increase)
    IN  [states |-> [ts EXCEPT !.tank_a.pump_running = running,
                               !.tank_a.last_pump_cycle = cycle,
                               !.tank_a.current_level_cm =
                                   Persisted(new_level, new_level + noise)],
         measured |-> Max(0, new_level + noise),
         pump_should_run |-> pump_should_run,
         pump_should_stop |-> pump_should_stop]

\* The local level_increase of _simulate_tank_b_level: Tank B's inflow.
TankBInflowWhateverThePump(pump_running, fill_rate, td) == fill_rate * 10 * td
TankBInflow(pump_running, fill_rate, td) ==
    IF pump_running THEN fill_rate * 10 * td ELSE 0

\* _simulate_tank_b_level
SimulateTankBLevel(ts, td, fill_rate, hour, variation, noise) ==
    LET config == TANK_CONFIGS.tank_b
        current_level == ts.tank_b.current_level_cm
        level_increase == TankBInflow(ts.tank_a.pump_running, fill_rate, td)
        level_decrease == 3 * GetConsumptionMultiplier(hour, variation) * td
        new_level == Limit(config.min_height_cm, config.max_height_cm,
                           current_level + level_increase - level_decrease)
    IN  [states |-> [ts EXCEPT !.tank_b.current_level_cm =
                                   Persisted(new_level, new_level + noise)],
         measured |-> Max(0, new_level + noise),
         level_increase |-> level_increase,
         level_decrease |-> level_decrease]

\* should_dose and should_stop of _simulate_chlorine_level, on the chlorine value after decay.
ShouldDose(current_chlorine) == current_chlorine * 10 < 8 * Ppm
ShouldStopDosing(current_chlorine) == current_chlorine * 10 > 15 * Ppm

\* The chlorinator's flag after the if/elif of _simulate_chlorine_level.
ChlorinatorFollowsLowThreshold(should_dose, should_stop, running) == should_dose
ChlorinatorNeverStops(should_dose, should_stop, running) == should_dose \/ running
ChlorinatorAfterHysteresis(should_dose, should_stop, running) ==
    IF should_dose /\ ~running THEN TRUE
    ELSE IF should_stop /\ running THEN FALSE
    ELSE running

\* _simulate_chlorine_level
SimulateChlorineLevel(ts, td, decay, dose, noise, t) ==
    LET state == ts.tank_b
        decayed == state.chlorine_ppm - decay * td
        should_dose == ShouldDose(decayed)
        should_stop == ShouldStopDosing(decayed)
        running == ChlorinatorAfterHysteresis(should_dose, should_stop, state.chlorinator_running)
        dosed_at == IF should_dose /\ ~state.chlorinator_running
                    THEN t ELSE state.last_chlorine_dose
        dosed == IF running THEN decayed + dose * td ELSE decayed
        new_chlorine == Limit(0, 3 * Ppm, dosed)
    IN  [states |-> [ts EXCEPT !.tank_b.chlorinator_running = running,
                               !.tank_b.last_chlorine_dose = dosed_at,
                               !.tank_b.chlorine_ppm =
                                   Persisted(new_chlorine, new_chlorine + noise)],
         measured |-> Max(0, new_chlorine + noise),
         current_chlorine |-> decayed,
         should_dose |-> should_dose,
         should_stop |-> should_stop]

\* _get_chlorine_status
GetChlorineStatusHighAtStop(chlorine_ppm) ==
    IF chlorine_ppm * 10 < 5 * Ppm THEN "low"
    ELSE IF chlorine_ppm * 10 > 15 * Ppm THEN "high"
    ELSE "normal"
GetChlorineStatus(chlorine_ppm) ==
    IF chlorine_ppm * 10 < 5 * Ppm THEN "low"
    ELSE IF chlorine_ppm * 10 > 20 * Ppm THEN "high"
    ELSE "normal"

\* round(n / d) for n >= 0: the nearest integer, a tie going to the even one.
RoundDiv(n, d) ==
    LET q == n \div d
        r == n % d
    IN  IF 2 * r < d THEN q
        ELSE IF 2 * r > d THEN q + 1
        ELSE IF q % 2 = 0 THEN q ELSE q + 1

\* round(level_cm, 2), in units: a hundredth of a centimetre is Cm / 100 units.
RoundedLevel(level_cm) == RoundDiv(level_cm, Cm \div 100) * (Cm \div 100)
\* round(chlorine_ppm, 3), in units: a thousandth of a ppm is Ppm / 1000 units.
RoundedChlorine(chlorine_ppm) == RoundDiv(chlorine_ppm, Ppm \div 1000) * (Ppm \div 1000)
\* round((level_cm / max_height_cm) * 100, 1), in tenths of a percent: a tenth
\* of a percent of max_height_cm is a whole number of units.
LevelPercentOfSpan(level_cm, tank_type) ==
    RoundDiv(level_cm - TANK_CONFIGS[tank_type].min_height_cm,
             (TANK_CONFIGS[tank_type].max_height_cm
                 - TANK_CONFIGS[tank_type].min_height_cm) \div 1000)
LevelPercent(level_cm, tank_type) ==
    RoundDiv(level_cm, TANK_CONFIGS[tank_type].max_height_cm \div 1000)
\* round(_calculate_volume_from_level(level_cm), 2), in hundredths of a cubic
\* metre: level_cm * capacity_m3 / max_height_cm, a hundredth of a cubic metre
\* being a whole number of units of level.
VolumeM3(level_cm, tank_type) ==
    RoundDiv(level_cm, TANK_CONFIGS[tank_type].max_height_cm
                          \div (TANK_CONFIGS[tank_type].capacity_m3 * 100))

\* The locals of a generate_tank_reading call not yet made.
NoLocals ==
    [time_delta_minutes |-> 0, measured_level |-> 0,
     pump_should_run |-> FALSE, pump_should_stop |-> FALSE,
     level_increase |-> 0, level_decrease |-> 0,
     current_chlorine |-> 0, measured_chlorine |-> 0,
     should_dose |-> FALSE, should_stop |-> FALSE]

\* self.tank_states[tank_type].get("pump_running", False): only Tank A's
\* dict has the key.
PumpStatusOfThePump(ts, tank_type) == ts.tank_a.pump_running
PumpStatus(ts, tank_type) ==
    IF "pump_running" \in DOMAIN ts[tank_type] THEN ts[tank_type].pump_running ELSE FALSE

\* The Reading's fields for a measured level, and for a measured chlorine value.
LevelFields(level_cm, tank_type) ==
    [water_level_cm |-> RoundedLevel(level_cm),
     water_level_percent |-> LevelPercent(level_cm, tank_type),
     water_volume_m3 |-> VolumeM3(level_cm, tank_type)]

\* generate_tank_reading(TANK_A, td): the new tank_states, the Reading, and
\* the locals of the call as it leaves them.
GenerateTankAReading(ts, td, rate, season, pump_rate, noise, t) ==
    LET sim == SimulateTankALevel(ts, td, rate, season, pump_rate, noise, t)
    IN  [states |-> sim.states,
         reading |-> [timestamp |-> t, tank_id |-> TANK_CONFIGS.tank_a.tank_id,
                      pump_status |-> PumpStatus(sim.states, "tank_a")]
                     @@ LevelFields(sim.measured, "tank_a"),
         locals |-> [NoLocals EXCEPT !.time_delta_minutes = td,
                               !.measured_level = sim.measured,
                               !.pump_should_run = sim.pump_should_run,
                               !.pump_should_stop = sim.pump_should_stop]]

\* generate_tank_reading(TANK_B, td): level first, then chlorine.
GenerateTankBReading(ts, td, fill_rate, hour, variation, noise, decay, dose, noise_cl, t) ==
    LET sim == SimulateTankBLevel(ts, td, fill_rate, hour, variation, noise)
        chl == SimulateChlorineLevel(sim.states, td, decay, dose, noise_cl, t)
    IN  [states |-> chl.states,
         reading |-> [timestamp |-> t, tank_id |-> TANK_CONFIGS.tank_b.tank_id,
                      pump_status |-> PumpStatus(sim.states, "tank_b"),
                      chlorine_ppm |-> RoundedChlorine(chl.measured),
                      chlorine_status |-> GetChlorineStatus(chl.measured),
                      chlorinator_status |-> chl.states.tank_b.chlorinator_running]
                     @@ LevelFields(sim.measured, "tank_b"),
         locals |-> [NoLocals EXCEPT !.time_delta_minutes = td,
                               !.measured_level = sim.measured,
                               !.level_increase = sim.level_increase,
                               !.level_decrease = sim.level_decrease,
                               !.current_chlorine = chl.current_chlorine,
                               !.measured_chlorine = chl.measured,
                               !.should_dose = chl.should_dose,
                               !.should_stop = chl.should_stop]]

\* What generate_tank_reading(tank_type, td) can do at time t, over its
\* random draws; signs are the ends at which noise and variation are sampled.
GenerateTankReading(ts, tank_type, td, clock, t, signs) ==
    IF tank_type = "tank_a"
    THEN {GenerateTankAReading(ts, td, rate, clock.season, pump_rate, noise, t) :
              rate \in FillRateA, pump_rate \in PumpRateA, noise \in NoiseA(signs)}
    ELSE {GenerateTankBReading(ts, td, fill_rate, clock.hour, variation, noise,
                               decay, dose, noise_cl, t) :
              fill_rate \in FillRateB, variation \in Variation(signs), noise \in NoiseB(signs),
              decay \in DecayRate, dose \in DoseRate, noise_cl \in NoiseCl(signs)}

\* The order of "for tank_type in TankType": the order of the enum's members.
TankOrderReversed == <<"tank_b", "tank_a">>
TankOrder == <<"tank_a", "tank_b">>

\* get_tank_reading's choice of the tank for a tank_id string.
TankTypeOf(tank_id) == IF tank_id = "tank_a" THEN "tank_a" ELSE "tank_b"

\* --------------------------------------------------------------- API state
NoAction == [action |-> "none", timestamp |-> 0]

InitialManualControls ==
    [pump_manual_mode |-> FALSE, pump_manual_state |-> FALSE,
     chlorinator_manual_mode |-> FALSE, chlorinator_manual_state |-> FALSE,
     last_manual_action |-> [pump |-> NoAction, chlorinator |-> NoAction]]

\* apply_manual_controls: the tank_states it leaves.
ApplyManualControlsAlways(mc, ts) ==
    [ts EXCEPT !.tank_a.pump_running = mc.pump_manual_state,
               !.tank_b.chlorinator_running = mc.chlorinator_manual_state]
ApplyManualControlsCrossed(mc, ts) ==
    [ts EXCEPT !.tank_a.pump_running =
                   IF mc.pump_manual_mode THEN mc.chlorinator_manual_state ELSE @,
               !.tank_b.chlorinator_running =
                   IF mc.chlorinator_manual_mode THEN mc.pump_manual_state ELSE @]
ApplyManualControls(mc, ts) ==
    [ts EXCEPT !.tank_a.pump_running =
                   IF mc.pump_manual_mode THEN mc.pump_manual_state ELSE @,
               !.tank_b.chlorinator_running =
                   IF mc.chlorinator_manual_mode THEN mc.chlorinator_manual_state ELSE @]

\* Whether the cache holds a Reading of tank_id.
CachedByTankType(cache, tank_id) ==
    \E i \in 1..Len(cache) : cache[i].tank_id = "TankType." \o tank_id
Cached(cache, tank_id) == \E i \in 1..Len(cache) : cache[i].tank_id = tank_id

\* Tank identifiers a caller may pass: the two tanks and one that is neither.
RequestIds == TankIds \cup {"tank_c"}

\* time_delta_minutes: the default of generate_tank_reading, used by every call of main.py.
DefaultMinutes == 1
\* time_delta_minutes passed by a direct user of the engine: a minute, a day.
ElapsedMinutes == {DefaultMinutes, 24 * 60}

\* ------------------------------------------------- states of a running loop
\* Engine states the refresh loop leaves behind in automatic mode, next to a
\* threshold or a limit; what is not moved is the constructor's.
WithTankA(level, running) ==
    [InitialTankStates(0) EXCEPT !.tank_a.current_level_cm = level,
                                 !.tank_a.pump_running = running]

WithTankB(ts, level) ==
    [ts EXCEPT !.tank_b.current_level_cm = level]

WithChlorine(chlorine, running) ==
    [InitialTankStates(0) EXCEPT !.tank_b.chlorine_ppm = chlorine,
                                 !.tank_b.chlorinator_running = running]

RunningStates ==
    {WithTankA(153 * Cm, FALSE),
     WithTankA(108 * Cm + 300, TRUE), WithTankA(108 * Cm - 40, TRUE),
     WithTankA(170 * Cm, TRUE),
     WithTankB(WithTankA(180 * Cm - 20, TRUE), 30 * Cm + 100),
     WithTankB(WithChlorine((8 * Ppm) \div 10 + 8, FALSE), 70 * Cm),
     WithTankB(WithChlorine((15 * Ppm) \div 10 + 20, TRUE), 280 * Cm)}

\* The Readings of the tick that left ts.
ReadingsOf(ts) ==
    << [timestamp |-> 0, tank_id |-> "tank_a",
        pump_status |-> PumpStatus(ts, "tank_a")]
       @@ LevelFields(ts.tank_a.current_level_cm, "tank_a"),
       [timestamp |-> 0, tank_id |-> "tank_b",
        pump_status |-> PumpStatus(ts, "tank_b"),
        chlorine_ppm |-> RoundedChlorine(ts.tank_b.chlorine_ppm),
        chlorine_status |-> GetChlorineStatus(ts.tank_b.chlorine_ppm),
        chlorinator_status |-> ts.tank_b.chlorinator_running]
       @@ LevelFields(ts.tank_b.current_level_cm, "tank_b") >>

NoResponse == [op |-> "none", arg |-> "none", result |-> "none", source |-> "none"]

\* The two sleeps of update_readings_cache, in seconds.
NormalInterval == 30
ErrorBackoff == 5

\* ------------------------------------------------------ the state snapshot
\* A dict handed to a caller: the engine's own dict (shared) or a new dict
\* with the fields the engine's dict had.
DictItself(d) == [shared |-> TRUE, fields |-> d]
DictCopy(d) == [shared |-> FALSE, fields |-> d]

\* What a caller reads in a dict it holds, live being the engine's dict now.
Seen(obj, live) == IF obj.shared THEN live ELSE obj.fields

NoSnapshot == [taken |-> FALSE]

\* SensorDataGenerator.get_system_status at time t.
GetSystemStatus(ts, t) ==
    [taken |-> TRUE, timestamp |-> t,
     tank_a_state |-> DictCopy(ts.tank_a),
     tank_b_state |-> DictCopy(ts.tank_b),
     system_operational |-> TRUE, last_reading |-> t]

\* The API process at import (startup still to run), or with its loop already running.
InitApi ==
    /\ now = 0
    /\ manual_controls = InitialManualControls
    /\ last_update = 0
    /\ task = "none"
    /\ readings = << >>
    /\ locals = NoLocals
    /\ response = NoResponse
    /\ commands = 0
    /\ failures = 0
    /\ snapshot = NoSnapshot
    /\ \/ /\ pc = "startup"
          /\ env \in WallClocks
          /\ tank_states = InitialTankStates(0)
          /\ latest_readings_cache = << >>
          /\ delay = 0
       \/ /\ pc = "idle"
          /\ delay = NormalInterval
          /\ env = HighSeason
          /\ tank_states \in RunningStates
          /\ latest_readings_cache = ReadingsOf(tank_states)

\* A SensorDataGenerator just constructed, used directly.
InitEngine ==
    /\ now = 0
    /\ env \in WallClocks
    /\ tank_states = InitialTankStates(0)
    /\ manual_controls = InitialManualControls
    /\ latest_readings_cache = << >>
    /\ last_update = 0
    /\ pc = "engine"
    /\ task = "none"
    /\ readings = << >>
    /\ locals = NoLocals
    /\ response = NoResponse
    /\ commands = 0
    /\ delay = 0
    /\ failures = 0
    /\ snapshot = NoSnapshot

Init == InitApi \/ InitEngine

\* ------------------------------------------------------------- API actions
\* The run lasts while fewer than MaxTicks ticks have been completed or are under way.
TicksLeft == now - failures < MaxTicks

\* lifespan, to its first get_latest_readings().
LifespanStart ==
    /\ pc = "startup"
    /\ pc' = "gen_a"
    /\ task' = "lifespan"
    /\ readings' = << >>
    /\ response' = NoResponse
    /\ UNCHANGED <<tank_states, manual_controls, latest_readings_cache, last_update,
                   now, env, locals, commands, delay, failures, snapshot>>

\* update_readings_cache: the sleep ends, apply_manual_controls() runs and
\* get_latest_readings() is entered.
TickStart ==
    /\ pc = "idle"
    /\ TicksLeft
    /\ now' = now + 1
    /\ delay' = 0
    /\ tank_states' = ApplyManualControls(manual_controls, tank_states)
    /\ pc' = "gen_a"
    /\ task' = "update_readings_cache"
    /\ readings' = << >>
    /\ response' = NoResponse
    /\ UNCHANGED <<manual_controls, latest_readings_cache, last_update, env, locals,
                   commands, failures, snapshot>>

\* generate_all_readings: the loop body for TankType.TANK_A.
GenerateTankA ==
    /\ pc = "gen_a"
    /\ \E g \in GenerateTankReading(tank_states, TankOrder[1], DefaultMinutes, env,
                                    now, UpperEnd) :
          /\ tank_states' = g.states
          /\ locals' = g.locals
          /\ readings' = Append(readings, g.reading)
    /\ pc' = "gen_b"
    /\ UNCHANGED <<manual_controls, latest_readings_cache, last_update, now, env,
                   task, response, commands, delay, failures, snapshot>>

\* generate_all_readings: the loop body for TankType.TANK_B.
GenerateTankB ==
    /\ pc = "gen_b"
    /\ \E g \in GenerateTankReading(tank_states, TankOrder[2], DefaultMinutes, env,
                                    now, UpperEnd) :
          /\ tank_states' = g.states
          /\ locals' = g.locals
          /\ readings' = Append(readings, g.reading)
    /\ pc' = "store"
    /\ UNCHANGED <<manual_controls, latest_readings_cache, last_update, now, env,
                   task, response, commands, delay, failures, snapshot>>

\* The caller's assignment of latest_readings_cache and last_update; the
\* loop then sleeps, lifespan then creates the loop's task.
StoreReadings ==
    /\ pc = "store"
    /\ latest_readings_cache' = readings
    /\ last_update' = now
    /\ pc' = "idle"
    /\ task' = "none"
    /\ readings' = << >>
    /\ delay' = IF task = "update_readings_cache" THEN NormalInterval ELSE 0
    /\ UNCHANGED <<tank_states, manual_controls, now, env, locals, response, commands,
                   failures, snapshot>>

\* The client's ways to a control-command handler: controlar_bomba(accion) and
\* controlar_clorador(accion) of utils/api_client.py, and the dashboard's
\* auto_mode button.  The handler each one posts to.
Clients == {"controlar_bomba", "controlar_clorador", "auto_mode"}
Acciones == {"on", "off", "auto"}
ClientEndpoint(client, accion) ==
    CASE client = "controlar_bomba" ->
            (CASE accion = "on" -> "turn_pump_on"
               [] accion = "off" -> "turn_pump_off"
               [] accion = "auto" -> "set_automatic_mode"
               [] OTHER -> "invalid_action")
      [] client = "controlar_clorador" ->
            (CASE accion = "on" -> "turn_chlorinator_on"
               [] accion = "off" -> "turn_chlorinator_off"
               [] accion = "auto" -> "set_automatic_mode"
               [] OTHER -> "invalid_action")
      [] OTHER -> IF accion = "auto" THEN "set_automatic_mode" ELSE "invalid_action"

\* What a control-command handler returns; arg is the client's way to it.
Handled(op, client) == [op |-> op, arg |-> client, result |-> "200", source |-> "none"]

\* A control command is handled between two ticks, while the run lasts.
CommandHandledAnytime(op) ==
    /\ pc \in {"idle", "gen_a", "gen_b", "store"}
    /\ TicksLeft \/ pc # "idle"
    /\ commands < MaxCommands
    /\ commands' = commands + 1
    /\ \E client \in Clients, accion \in Acciones :
          /\ ClientEndpoint(client, accion) = op
          /\ response' = Handled(op, client)
    /\ UNCHANGED <<latest_readings_cache, last_update, now, env, pc, task, readings,
                   locals, delay, failures, snapshot>>
CommandHandled(op) ==
    /\ pc = "idle"
    /\ TicksLeft
    /\ commands < MaxCommands
    /\ commands' = commands + 1
    /\ \E client \in Clients, accion \in Acciones :
          /\ ClientEndpoint(client, accion) = op
          /\ response' = Handled(op, client)
    /\ UNCHANGED <<latest_readings_cache, last_update, now, env, pc, task, readings,
                   locals, delay, failures, snapshot>>

\* The manual_controls set_automatic_mode leaves, handled at time t.
SetAutomaticOfThePumpOnly(mc, t) ==
    [mc EXCEPT !.pump_manual_mode = FALSE,
               !.last_manual_action.pump = [action |-> "set_automatic", timestamp |-> t]]
SetAutomatic(mc, t) ==
    [mc EXCEPT !.pump_manual_mode = FALSE,
               !.chlorinator_manual_mode = FALSE,
               !.last_manual_action.pump = [action |-> "set_automatic", timestamp |-> t],
               !.last_manual_action.chlorinator = [action |-> "set_automatic", timestamp |-> t]]

\* POST /api/control/chlorinator/on with the assignment of the running flag
\* taken over from the pump's handler.
TurnChlorinatorOnWritingThePump ==
    /\ CommandHandled("turn_chlorinator_on")
    /\ manual_controls' =
          [manual_controls EXCEPT !.chlorinator_manual_mode = TRUE,
                                  !.chlorinator_manual_state = TRUE,
                                  !.last_manual_action.chlorinator =
                                      [action |-> "turn_on", timestamp |-> now]]
    /\ tank_states' = [tank_states EXCEPT !.tank_a.pump_running = TRUE]

\* POST /api/control/pump/on
TurnPumpOn ==
    /\ CommandHandled("turn_pump_on")
    /\ manual_controls' =
          [manual_controls EXCEPT !.pump_manual_mode = TRUE,
                                  !.pump_manual_state = TRUE,
                                  !.last_manual_action.pump =
                                      [action |-> "turn_on", timestamp |-> now]]
    /\ tank_states' = [tank_states EXCEPT !.tank_a.pump_running = TRUE]

\* POST /api/control/pump/off
TurnPumpOff ==
    /\ CommandHandled("turn_pump_off")
    /\ manual_controls' =
          [manual_controls EXCEPT !.pump_manual_mode = TRUE,
                                  !.pump_manual_state = FALSE,
                                  !.last_manual_action.pump =
                                      [action |-> "turn_off", timestamp |-> now]]
    /\ tank_states' = [tank_states EXCEPT !.tank_a.pump_running = FALSE]

\* POST /api/control/chlorinator/on
TurnChlorinatorOn ==
    /\ CommandHandled("turn_chlorinator_on")
    /\ manual_controls' =
          [manual_controls EXCEPT !.chlorinator_manual_mode = TRUE,
                                  !.chlorinator_manual_state = TRUE,
                                  !.last_manual_action.chlorinator =
                                      [action |-> "turn_on", timestamp |-> now]]
    /\ tank_states' = [tank_states EXCEPT !.tank_b.chlorinator_running = TRUE]

\* POST /api/control/chlorinator/off
TurnChlorinatorOff ==
    /\ CommandHandled("turn_chlorinator_off")
    /\ manual_controls' =
          [manual_controls EXCEPT !.chlorinator_manual_mode = TRUE,
                                  !.chlorinator_manual_state = FALSE,
                                  !.last_manual_action.chlorinator =
                                      [action |-> "turn_off", timestamp |-> now]]
    /\ tank_states' = [tank_states EXCEPT !.tank_b.chlorinator_running = FALSE]

\* POST /api/control/auto
SetAutomaticMode ==
    /\ CommandHandled("set_automatic_mode")
    /\ manual_controls' = SetAutomatic(manual_controls, now)
    /\ UNCHANGED tank_states

\* GET /api/tank/{tank_id}: 400 for an unknown id, the cached Reading when
\* there is one, else a fresh get_tank_reading(tank_id).
GetTankData ==
    /\ pc = "idle"
    /\ TicksLeft
    /\ \E tank_id \in RequestIds :
          IF tank_id \notin {"tank_a", "tank_b"}
          THEN /\ response' = [op |-> "get_tank_data", arg |-> tank_id,
                               result |-> "400", source |-> "none"]
               /\ UNCHANGED <<tank_states, locals>>
          ELSE IF Cached(latest_readings_cache, tank_id)
          THEN /\ response' = [op |-> "get_tank_data", arg |-> tank_id,
                               result |-> tank_id, source |-> "cache"]
               /\ UNCHANGED <<tank_states, locals>>
          ELSE \E g \in GenerateTankReading(tank_states, TankTypeOf(tank_id),
                                            DefaultMinutes, env, now, UpperEnd) :
                  /\ tank_states' = g.states
                  /\ locals' = g.locals
                  /\ response' = [op |-> "get_tank_data", arg |-> tank_id,
                                  result |-> g.reading.tank_id, source |-> "simulation"]
    /\ UNCHANGED <<manual_controls, latest_readings_cache, last_update, now, env, pc,
                   task, readings, commands, delay, failures, snapshot>>

\* The alerts of get_system_status of main.py for the cached Readings: the
\* alert types raised for tank_id.
Alerts(cache, tank_id) ==
    LET data == {cache[i] : i \in {j \in 1..Len(cache) : cache[j].tank_id = tank_id}}
    IN  IF tank_id = "tank_a"
        THEN {"low_water" : r \in {d \in data : d.water_level_percent < 200}}
             \cup {"high_water" : r \in {d \in data : ~(d.water_level_percent < 200)
                                                        /\ d.water_level_percent > 900}}
        ELSE {"low_water" : r \in {d \in data : d.water_level_percent < 250}}
             \cup {"low_chlorine" : r \in {d \in data : d.chlorine_ppm * 10 < 5 * Ppm}}
             \cup {"high_chlorine" : r \in {d \in data : ~(d.chlorine_ppm * 10 < 5 * Ppm)
                                                           /\ d.chlorine_ppm * 10 > 20 * Ppm}}

\* GET /api/status: the alerts are computed from the cache, nothing is written.
GetSystemStatusEndpoint ==
    /\ pc = "idle"
    /\ TicksLeft
    /\ response' = [op |-> "api_status", arg |-> "none", result |-> "200",
                    source |-> "cache"]
    /\ UNCHANGED <<tank_states, manual_controls, latest_readings_cache, last_update,
                   now, env, pc, task, readings, locals, commands, delay, failures,
                   snapshot>>

\* What GET /api/readings answers: the cache and last_update as they are, and
\* the control modes of manual_controls.
CurrentReadingsWithLiveFlags ==
    [timestamp |-> last_update,
     readings |-> [i \in 1..Len(latest_readings_cache) |->
                     IF latest_readings_cache[i].tank_id = "tank_a"
                     THEN [latest_readings_cache[i] EXCEPT
                              !.pump_status = tank_states.tank_a.pump_running]
                     ELSE [latest_readings_cache[i] EXCEPT
                              !.chlorinator_status = tank_states.tank_b.chlorinator_running]],
     tanks_count |-> Len(latest_readings_cache),
     control_modes |->
        [pump_mode |-> IF manual_controls.pump_manual_mode THEN "manual" ELSE "automatic",
         chlorinator_mode |-> IF manual_controls.chlorinator_manual_mode
                              THEN "manual" ELSE "automatic"]]
CurrentReadings ==
    [timestamp |-> last_update,
     readings |-> latest_readings_cache,
     tanks_count |-> Len(latest_readings_cache),
     control_modes |->
        [pump_mode |-> IF manual_controls.pump_manual_mode THEN "manual" ELSE "automatic",
         chlorinator_mode |-> IF manual_controls.chlorinator_manual_mode
                              THEN "manual" ELSE "automatic"]]

\* What GET /api/control/status answers: manual_controls and the engine's
\* running flags as they are.
ControlStatus ==
    [manual_controls |-> manual_controls,
     current_states |->
        [pump_running |-> tank_states.tank_a.pump_running,
         chlorinator_running |-> tank_states.tank_b.chlorinator_running],
     modes |->
        [pump |-> IF manual_controls.pump_manual_mode THEN "MANUAL" ELSE "AUTOMATIC",
         chlorinator |-> IF manual_controls.chlorinator_manual_mode
                         THEN "MANUAL" ELSE "AUTOMATIC"],
     last_actions |-> manual_controls.last_manual_action]

\* What GET /health answers.
Health ==
    [status |-> "healthy",
     cache_updated |-> last_update,
     readings_cached |-> Len(latest_readings_cache),
     manual_controls_active |-> manual_controls.pump_manual_mode
                                   \/ manual_controls.chlorinator_manual_mode]

\* A read endpoint that builds its answer from the globals and writes none.
Answered(op, source) ==
    /\ pc = "idle"
    /\ TicksLeft
    /\ response' = [op |-> op, arg |-> "none", result |-> "200", source |-> source]
    /\ UNCHANGED <<tank_states, manual_controls, latest_readings_cache, last_update,
                   now, env, pc, task, readings, locals, commands, delay, failures,
                   snapshot>>

\* GET /api/readings
GetCurrentReadings == Answered("api_readings", "cache")

\* GET /api/control/status
GetControlStatus == Answered("control_status", "state")

\* GET /health
HealthCheck == Answered("health", "state")

\* ------------------------------------------------- the engine on its own
\* An engine call, at the time t it is made.
EngineCalled(t) ==
    /\ pc = "engine"
    /\ now < MaxSteps
    /\ t = now + 1
    /\ now' = t
    /\ UNCHANGED <<manual_controls, latest_readings_cache, last_update, env, pc, task,
                   commands, delay, failures>>

\* sensor_generator.generate_tank_reading(tank_type, time_delta_minutes)
CallGenerateTankReading ==
    \E tank_type \in TankIds, td \in ElapsedMinutes, t \in 1..MaxSteps :
        /\ EngineCalled(t)
        /\ \E g \in GenerateTankReading(tank_states, tank_type, td, env, t, BothEnds) :
              /\ tank_states' = g.states
              /\ locals' = g.locals
              /\ readings' = << g.reading >>
              /\ response' = [op |-> "generate_tank_reading", arg |-> tank_type,
                              result |-> g.reading.tank_id, source |-> "simulation"]
        /\ UNCHANGED snapshot

\* get_tank_reading(tank_id), the module's entry point by identifier.
CallGetTankReading ==
    \E tank_id \in RequestIds, t \in 1..MaxSteps :
        /\ EngineCalled(t)
        /\ \E g \in GenerateTankReading(tank_states, TankTypeOf(tank_id),
                                       DefaultMinutes, env, t, UpperEnd) :
              /\ tank_states' = g.states
              /\ locals' = g.locals
              /\ readings' = << g.reading >>
              /\ response' = [op |-> "get_tank_reading", arg |-> tank_id,
                              result |-> g.reading.tank_id, source |-> "simulation"]
        /\ UNCHANGED snapshot

\* sensor_generator.get_system_status(): the caller keeps the dict returned.
CallGetSystemStatus ==
    \E t \in 1..MaxSteps :
        /\ EngineCalled(t)
        /\ ~snapshot.taken
        /\ snapshot' = GetSystemStatus(tank_states, t)
        /\ response' = [op |-> "get_system_status", arg |-> "none",
                        result |-> "snapshot", source |-> "state"]
        /\ UNCHANGED <<tank_states, locals, readings>>

\* The caller assigns a field of a tank's dict in the snapshot it holds:
\* snapshot["tank_a_state"]["current_level_cm"] = 0.0, or
\* snapshot["tank_b_state"]["chlorinator_running"] = True.
CallerWritesSnapshot ==
    \E t \in 1..MaxSteps :
        /\ EngineCalled(t)
        /\ snapshot.taken
        /\ \/ IF snapshot.tank_a_state.shared
              THEN /\ tank_states' = [tank_states EXCEPT !.tank_a.current_level_cm = 0]
                   /\ UNCHANGED snapshot
              ELSE /\ snapshot' = [snapshot EXCEPT !.tank_a_state.fields.current_level_cm = 0]
                   /\ UNCHANGED tank_states
           \/ IF snapshot.tank_b_state.shared
              THEN /\ tank_states' = [tank_states EXCEPT !.tank_b.chlorinator_running = TRUE]
                   /\ UNCHANGED snapshot
              ELSE /\ snapshot' = [snapshot EXCEPT
                                      !.tank_b_state.fields.chlorinator_running = TRUE]
                   /\ UNCHANGED tank_states
        /\ response' = [op |-> "caller_writes", arg |-> "none",
                        result |-> "none", source |-> "none"]
        /\ UNCHANGED <<locals, readings>>

Next ==
    \/ LifespanStart
    \/ TickStart
    \/ GenerateTankA
    \/ GenerateTankB
    \/ StoreReadings
    \/ TurnPumpOn
    \/ TurnPumpOff
    \/ TurnChlorinatorOn
    \/ TurnChlorinatorOff
    \/ SetAutomaticMode
    \/ GetTankData
    \/ GetSystemStatusEndpoint
    \/ GetCurrentReadings
    \/ GetControlStatus
    \/ HealthCheck
    \/ CallGenerateTankReading
    \/ CallGetTankReading
    \/ CallGetSystemStatus
    \/ CallerWritesSnapshot

Spec == Init /\ [][Next]_vars

\* ------------------------------------------- the refresh loop's life cycle
\* The API process from its start to its shutdown, no request arriving.
InitLoop == InitApi /\ pc = "startup"

\* Where a cancellation requested with task.cancel() is delivered: at an await
\* of the coroutine, and update_readings_cache awaits in its two sleeps only.
DeliveredAnywhere(p) == p \in {"idle", "gen_a", "gen_b", "store"}
CancellationPoint(p) == p = "idle"

\* What except Exception does with an exception of a tick: the loop goes on
\* to the backoff sleep.
LoopEndsOnException == "dead"
AfterException == "idle"

\* A tick raises, in a step of generate_all_readings: the readings collected
\* are dropped, the cache is not assigned, the loop sleeps ErrorBackoff.
TickRaisesStoringItsReadings ==
    /\ pc \in {"gen_a", "gen_b"}
    /\ task = "update_readings_cache"
    /\ failures < MaxFailures
    /\ failures' = failures + 1
    /\ pc' = AfterException
    /\ delay' = ErrorBackoff
    /\ task' = "none"
    /\ latest_readings_cache' = readings
    /\ readings' = << >>
    /\ UNCHANGED <<tank_states, manual_controls, last_update,
                   now, env, locals, response, commands, snapshot>>
TickRaises ==
    /\ pc \in {"gen_a", "gen_b"}
    /\ task = "update_readings_cache"
    /\ failures < MaxFailures
    /\ failures' = failures + 1
    /\ pc' = AfterException
    /\ delay' = ErrorBackoff
    /\ task' = "none"
    /\ readings' = << >>
    /\ UNCHANGED <<tank_states, manual_controls, latest_readings_cache, last_update,
                   now, env, locals, response, commands, snapshot>>

\* lifespan's shutdown: task.cancel() and await task.  The CancelledError is
\* raised in the loop where it awaits and is not an Exception: the task ends.
CancelTask ==
    /\ task # "lifespan"
    /\ CancellationPoint(pc)
    /\ pc' = "stopped"
    /\ delay' = 0
    /\ task' = "none"
    /\ UNCHANGED <<tank_states, manual_controls, latest_readings_cache, last_update,
                   now, env, readings, locals, response, commands, failures, snapshot>>

NextLoop ==
    \/ LifespanStart
    \/ TickStart
    \/ GenerateTankA
    \/ GenerateTankB
    \/ StoreReadings
    \/ TickRaises
    \/ CancelTask

\* The sleep of the loop ends: asyncio.sleep returns once its delay is over,
\* and the loop begins its next tick unless it was cancelled in the sleep.
SpecLoop ==
    /\ InitLoop
    /\ [][NextLoop]_vars
    /\ WF_vars(TickStart)

\* ------------------------------------------ the loop left to itself, for good
\* The loop running with no request ever arriving: manual_controls stay as
\* constructed, and a tick is apply_manual_controls and the steps of the two
\* tanks.  _simulate_chlorine_level reads and writes chlorine_ppm,
\* chlorinator_running and last_chlorine_dose only, and no other step reads
\* them: ChlorineTick is the tick as the chlorine sees it.  The steps read the
\* time for the two last-change stamps only, and it is left where it is.
InitChlorine ==
    /\ InitApi
    /\ pc = "idle"
    /\ tank_states.tank_a = InitialTankStates(0).tank_a

ChlorineTick ==
    /\ pc = "idle"
    /\ \E decay \in DecayRate, dose \in DoseRate, noise_cl \in NoiseCl(UpperEnd) :
          tank_states' = SimulateChlorineLevel(
                             ApplyManualControls(manual_controls, tank_states),
                             DefaultMinutes, decay, dose, noise_cl, now).states
    /\ UNCHANGED <<manual_controls, latest_readings_cache, last_update, now, env, pc,
                   task, readings, locals, response, commands, delay, failures, snapshot>>

NextChlorine == ChlorineTick

\* while True: the sleep of 30 s ends and the next tick runs.
SpecChlorine ==
    /\ InitChlorine
    /\ [][NextChlorine]_vars
    /\ WF_vars(ChlorineTick)

\* _simulate_tank_a_level reads and writes Tank A's entry only, and no other
\* step reads it but for pump_running in Tank B's inflow: TankATick is the
\* tick as Tank A sees it, from the state of the running loop in which the
\* pump is about to be stopped at the lower threshold.
InitPump ==
    /\ InitApi
    /\ pc = "idle"
    /\ tank_states.tank_b = InitialTankStates(0).tank_b
    /\ PumpShouldStop(tank_states.tank_a.current_level_cm, TANK_CONFIGS.tank_a.max_height_cm)

TankATick ==
    /\ pc = "idle"
    /\ \E rate \in FillRateA, pump_rate \in PumpRateA, noise \in NoiseA(UpperEnd) :
          tank_states' = SimulateTankALevel(
                             ApplyManualControls(manual_controls, tank_states),
                             DefaultMinutes, rate, env.season, pump_rate, noise, now).states
    /\ UNCHANGED <<manual_controls, latest_readings_cache, last_update, now, env, pc,
                   task, readings, locals, response, commands, delay, failures, snapshot>>

NextPump == TankATick

\* while True: the sleep of 30 s ends and the next tick runs.
SpecPump ==
    /\ InitPump
    /\ [][NextPump]_vars
    /\ WF_vars(TankATick)

\* ------------------------------------------------------------- properties
\* A step of Tank A, and one of Tank B, as a transition: in the refresh loop
\* or the startup initialisation, or a call of the engine on its own.
TankAStep ==
    \/ pc = "gen_a" /\ pc' = "gen_b"
    \/ pc = "engine" /\ now' = now + 1 /\ response'.result = "tank_a"

TankBStep ==
    \/ pc = "gen_b" /\ pc' = "store"
    \/ pc = "engine" /\ now' = now + 1 /\ response'.result = "tank_b"

\* Some step has run: of the loop, or of the engine on its own.
AfterAStep == pc = "gen_b" \/ (pc = "engine" /\ response.result = "tank_a")
AfterBStep == pc = "store" \/ (pc = "engine" /\ response.result = "tank_b")

\* C1: in every reachable state, after any sequence of steps (of one minute
\* or of a day), ticks and control commands, the persisted level of each tank
\* lies between the tank's min_height_cm and max_height_cm.
LevelsWithinBounds ==
    \A tank \in TankIds :
        /\ TANK_CONFIGS[tank].min_height_cm <= tank_states[tank].current_level_cm
        /\ tank_states[tank].current_level_cm <= TANK_CONFIGS[tank].max_height_cm

\* Steps of a day have filled Tank A to its maximum and drained Tank B to its minimum.
BothLimitsReached ==
    /\ pc = "engine"
    /\ response.op # "none"
    /\ tank_states.tank_a.current_level_cm = 180 * Cm
    /\ tank_states.tank_b.current_level_cm = 30 * Cm

\* C2: in every reachable state, after any chlorine update, the persisted
\* chlorine_ppm of Tank B lies between 0.0 and 3.0 ppm.
ChlorineWithinBounds ==
    /\ 0 <= tank_states.tank_b.chlorine_ppm
    /\ tank_states.tank_b.chlorine_ppm <= 3 * Ppm

\* A day of dosing has left the chlorine at the 3.0 ppm limit.
ChlorineLimitReached ==
    /\ AfterBStep
    /\ tank_states.tank_b.chlorinator_running
    /\ tank_states.tank_b.chlorine_ppm = 3 * Ppm

\* C3: while an equipment item is in manual mode with manual_state false, its
\* running flag is false: after apply_manual_controls and after every step,
\* whatever the level or the chlorine value.
ManualOffKeepsEquipmentOff ==
    /\ (manual_controls.pump_manual_mode /\ ~manual_controls.pump_manual_state)
          => ~tank_states.tank_a.pump_running
    /\ (manual_controls.chlorinator_manual_mode /\ ~manual_controls.chlorinator_manual_state)
          => ~tank_states.tank_b.chlorinator_running

\* C4: while an equipment item is in manual mode with manual_state true, its
\* running flag is true at the end of every step, also of a step that starts
\* with Tank A at or below 60% or with chlorine above 1.5 ppm.
ManualOnKeepsEquipmentOn ==
    /\ (manual_controls.pump_manual_mode /\ manual_controls.pump_manual_state)
          => tank_states.tank_a.pump_running
    /\ (manual_controls.chlorinator_manual_mode /\ manual_controls.chlorinator_manual_state)
          => tank_states.tank_b.chlorinator_running

\* C5: in automatic mode and with no control command in the transition, a
\* running pump is still running after every transition that starts above 60%
\* of max_height and stops only in one that starts at or below 60%; a stopped
\* pump is still stopped after every transition that starts below 85% and
\* starts only in one that starts at or above 85%.
PumpHysteresisWithoutChatter ==
    [][ (~manual_controls.pump_manual_mode /\ manual_controls' = manual_controls) =>
            LET level == tank_states.tank_a.current_level_cm
                max_height == TANK_CONFIGS.tank_a.max_height_cm
                before == tank_states.tank_a.pump_running
                after == tank_states'.tank_a.pump_running
            IN  /\ (before /\ level * 100 > max_height * 60) => after
                /\ (before /\ ~after) => level * 100 <= max_height * 60
                /\ (~before /\ level * 100 < max_height * 85) => ~after
                /\ (~before /\ after) => level * 100 >= max_height * 85 ]_vars

\* With no command given, a step that started between the two thresholds has left an
\* already running pump running.
PumpKeptRunningInDeadband ==
    /\ AfterAStep
    /\ commands = 0
    /\ tank_states.tank_a.pump_running
    /\ tank_states.tank_a.last_pump_cycle < now
    /\ ~locals.pump_should_run
    /\ ~locals.pump_should_stop

\* C6: in the first step after the auto command has cleared manual mode, a
\* pump that is off turns on if Tank A starts the step at or above 85% of
\* max_height, and a chlorinator that is off turns on if the chlorine starts
\* the step below 0.8 ppm.
AutoCommandFreesHysteresis ==
    [][ /\ ( /\ TankAStep
             /\ manual_controls.last_manual_action.pump.action = "set_automatic"
             /\ ~manual_controls.pump_manual_mode
             /\ tank_states.tank_a.current_level_cm * 100
                   >= TANK_CONFIGS.tank_a.max_height_cm * 85 )
           => tank_states'.tank_a.pump_running
        /\ ( /\ TankBStep
             /\ manual_controls.last_manual_action.chlorinator.action = "set_automatic"
             /\ ~manual_controls.chlorinator_manual_mode
             /\ tank_states.tank_b.chlorine_ppm * 10 < 8 * Ppm )
           => tank_states'.tank_b.chlorinator_running ]_vars

\* A pump that ran at 170 cm or above, was turned off by command and then put
\* back in automatic mode, has been started by the step of the next tick.
ForcedOffPumpRestarted ==
    /\ pc = "gen_b"
    /\ task = "update_readings_cache"
    /\ manual_controls.last_manual_action.pump.action = "set_automatic"
    /\ commands = 2
    /\ tank_states.tank_a.current_level_cm > 160 * Cm
    /\ tank_states.tank_a.pump_running
    /\ tank_states.tank_a.last_pump_cycle = now

\* C7: whenever a step of a tank begins, if the tank's equipment is in manual
\* mode its running flag equals manual_state: Tank A's step of a tick or of
\* the startup initialisation begins at gen_a, Tank B's at gen_b, and the
\* fallback read of GET /api/tank/{tank_id} begins none, every tank being cached.
ManualStateAtStepStart ==
    /\ (pc = "gen_a" /\ manual_controls.pump_manual_mode)
          => tank_states.tank_a.pump_running = manual_controls.pump_manual_state
    /\ (pc = "gen_b" /\ manual_controls.chlorinator_manual_mode)
          => tank_states.tank_b.chlorinator_running = manual_controls.chlorinator_manual_state
    /\ pc = "idle" => \A tank_id \in TankIds : Cached(latest_readings_cache, tank_id)
    /\ response.source = "simulation" => response.op # "get_tank_data"

\* Tank A's step of a tick begins with the pump in manual mode, off by command
\* although the pump ran before the command.
StepBeginsUnderManualOff ==
    /\ pc = "gen_a"
    /\ task = "update_readings_cache"
    /\ manual_controls.pump_manual_mode
    /\ ~manual_controls.pump_manual_state
    /\ manual_controls.chlorinator_manual_mode
    /\ manual_controls.chlorinator_manual_state
    /\ tank_states.tank_a.current_level_cm > 160 * Cm

\* C8: right after every step of Tank B, the step's inflow contribution
\* level_increase is positive exactly when Tank A's pump_running flag is
\* true, and exactly 0 when it is false; in a tick the flag is the one Tank
\* A's step of the same tick has left.
InflowFollowsPump ==
    AfterBStep =>
        /\ (locals.level_increase > 0) = tank_states.tank_a.pump_running
        /\ ~tank_states.tank_a.pump_running => locals.level_increase = 0

\* Tank A's step of a tick has started the pump, and Tank B's step of the same
\* tick has taken an inflow.
InflowInTheTickThePumpStarted ==
    /\ pc = "store"
    /\ task = "update_readings_cache"
    /\ tank_states.tank_a.pump_running
    /\ tank_states.tank_a.last_pump_cycle = now
    /\ locals.level_increase > 0

\* C9: in automatic mode, a step of Tank A that starts at or above 85% of
\* max_height with the pump off ends with the pump on and last_pump_cycle
\* equal to the time of the step.
PumpStartsAtUpperThreshold ==
    [][ ( /\ TankAStep
          /\ ~manual_controls.pump_manual_mode
          /\ tank_states.tank_a.current_level_cm * 100
                >= TANK_CONFIGS.tank_a.max_height_cm * 85
          /\ ~tank_states.tank_a.pump_running )
        => /\ tank_states'.tank_a.pump_running
           /\ tank_states'.tank_a.last_pump_cycle = now' ]_vars

\* The engine on its own: a step of Tank A that started at or above 85% has
\* started the pump, later than its first call.
PumpStartedByEngineStep ==
    /\ pc = "engine"
    /\ response.result = "tank_a"
    /\ now >= 2
    /\ locals.pump_should_run
    /\ tank_states.tank_a.pump_running
    /\ tank_states.tank_a.last_pump_cycle = now

\* C10: an entry point given a tank identifier that is neither tank_a nor
\* tank_b answers with an error, and never with the Reading of a tank.
InvalidTankIdRejected ==
    (response.op # "none" /\ response.arg \notin TankIds) => response.result \notin TankIds

\* C11: a tick of the refresh loop that raises does not end the loop: the
\* loop goes to sleep for the 5 s backoff, a successful tick is followed by
\* the 30 s sleep, and after a failure a later tick is eventually attempted
\* unless the task has been cancelled.
LoopSurvivesFailingTick ==
    /\ [][ /\ failures' > failures => (pc' = "idle" /\ delay' = ErrorBackoff)
           /\ (pc = "store" /\ task = "update_readings_cache")
                 => (pc' = "idle" /\ delay' = NormalInterval) ]_vars
    /\ [](pc \in {"startup", "idle", "gen_a", "gen_b", "store", "stopped"})
    /\ (failures > 0 /\ delay = ErrorBackoff) ~> (pc = "gen_a" \/ pc = "stopped")

\* The first tick raised, the loop slept the backoff, and the tick after it
\* has stored its Readings.
TickCompletedAfterFailure ==
    /\ failures = 1
    /\ pc = "idle"
    /\ delay = NormalInterval
    /\ now = 2
    /\ last_update = now

\* C12: the refresh task ends only from its sleep: the transition that ends
\* it starts with no tick in flight, the Readings of the last tick that was
\* started and did not raise being stored in the cache.
CancelledOnlyWhileSleeping ==
    [][ pc' = "stopped" =>
           /\ pc = "idle"
           /\ readings = << >>
           /\ Len(latest_readings_cache) = 2
           /\ UNCHANGED <<tank_states, latest_readings_cache, last_update>> ]_vars

\* The task has been cancelled in the sleep that follows a completed tick.
CancelledAfterCompletedTick ==
    /\ pc = "stopped"
    /\ now >= 1
    /\ last_update = now
    /\ \A i \in 1..2 : latest_readings_cache[i].timestamp = now

\* C13: in a tick the overrides are in force before the first step, Tank A is
\* stepped once, then Tank B once, and only then is the cache assigned; once
\* startup is over the cache holds exactly two Readings, Tank A's and then
\* Tank B's, both of the tick that last stored.
TickOrder ==
    /\ pc = "gen_a" =>
          /\ readings = << >>
          /\ (task = "update_readings_cache" /\ manual_controls.pump_manual_mode)
                => tank_states.tank_a.pump_running = manual_controls.pump_manual_state
    /\ pc = "gen_b" =>
          /\ Len(readings) = 1
          /\ readings[1].tank_id = "tank_a"
          /\ readings[1].timestamp = now
    /\ pc = "store" =>
          /\ Len(readings) = 2
          /\ readings[1].tank_id = "tank_a"
          /\ readings[2].tank_id = "tank_b"
          /\ readings[1].timestamp = now
          /\ readings[2].timestamp = now
    /\ (pc = "idle" \/ task = "update_readings_cache") =>
          /\ Len(latest_readings_cache) = 2
          /\ latest_readings_cache[1].tank_id = "tank_a"
          /\ latest_readings_cache[2].tank_id = "tank_b"
          /\ latest_readings_cache[1].timestamp = last_update
          /\ latest_readings_cache[2].timestamp = last_update

\* A tick of the loop has replaced the cache of the tick before it.
CacheReplacedByTick ==
    /\ pc = "idle"
    /\ delay = NormalInterval
    /\ now >= 1
    /\ last_update = now
    /\ Len(latest_readings_cache) = 2
    /\ latest_readings_cache[1].pump_status = tank_states.tank_a.pump_running
    /\ commands > 0

\* The flags and the last action of an equipment item, written together by a handler.
WrittenWhole(mode, state, action) ==
    CASE action = "turn_on" -> mode /\ state
      [] action = "turn_off" -> mode /\ ~state
      [] OTHER -> ~mode

\* C14: the manual flags are never half-written; no command is handled
\* inside a tick, every command in force having been handled before the tick
\* began; and when the steps of a tick begin the running flags are the
\* commanded ones.
CommandsBetweenTicks ==
    LET pump == manual_controls.last_manual_action.pump
        chlorinator == manual_controls.last_manual_action.chlorinator
    IN  /\ WrittenWhole(manual_controls.pump_manual_mode,
                        manual_controls.pump_manual_state, pump.action)
        /\ WrittenWhole(manual_controls.chlorinator_manual_mode,
                        manual_controls.chlorinator_manual_state, chlorinator.action)
        /\ (task = "update_readings_cache" /\ pc \in {"gen_a", "gen_b", "store"}) =>
              /\ pump.timestamp < now
              /\ chlorinator.timestamp < now
        /\ (task = "update_readings_cache" /\ pc = "gen_a") =>
              /\ pump.action = "turn_on" => tank_states.tank_a.pump_running
              /\ pump.action = "turn_off" => ~tank_states.tank_a.pump_running
              /\ chlorinator.action = "turn_on" => tank_states.tank_b.chlorinator_running
              /\ chlorinator.action = "turn_off" => ~tank_states.tank_b.chlorinator_running

\* Two commands handled before a tick are both in force when its steps begin.
BothCommandsSeenByTick ==
    /\ pc = "gen_a"
    /\ task = "update_readings_cache"
    /\ manual_controls.last_manual_action.pump.action = "turn_on"
    /\ manual_controls.last_manual_action.chlorinator.action = "turn_off"
    /\ tank_states.tank_a.pump_running
    /\ ~tank_states.tank_b.chlorinator_running

\* C18: a control-command handler, running between two ticks, leaves the
\* engine's tank_states as they are: only a step and apply_manual_controls
\* write them.
HandlersLeaveTankStates ==
    [][ (pc = "idle" /\ pc' = "idle") => tank_states' = tank_states ]_vars

\* What the caller reads in the snapshot it holds.
SnapshotSeen ==
    [tank_a_state |-> Seen(snapshot.tank_a_state, tank_states.tank_a),
     tank_b_state |-> Seen(snapshot.tank_b_state, tank_states.tank_b)]

\* C19: get_system_status leaves tank_states as they are and returns their
\* fields; a write of the caller to the snapshot leaves tank_states as they
\* are; a later step leaves what the caller reads in the snapshot as it was.
SnapshotIsACopy ==
    [][ /\ (now' # now /\ response'.op = "get_system_status") =>
              /\ tank_states' = tank_states
              /\ SnapshotSeen' = [tank_a_state |-> tank_states.tank_a,
                                  tank_b_state |-> tank_states.tank_b]
        /\ (now' # now /\ response'.op = "caller_writes") => tank_states' = tank_states
        /\ (now' # now /\ snapshot.taken
               /\ response'.op \in {"generate_tank_reading", "get_tank_reading"})
              => SnapshotSeen' = SnapshotSeen ]_vars

\* The caller holds a snapshot it has written to, and a step of Tank A taken
\* since has moved the engine's level away from the one the snapshot was taken at.
SnapshotOutlivesStep ==
    /\ pc = "engine"
    /\ snapshot.taken
    /\ response.op = "generate_tank_reading"
    /\ snapshot.tank_a_state.fields.current_level_cm = 0
    /\ snapshot.tank_b_state.fields = tank_states.tank_b
    /\ tank_states.tank_a.current_level_cm > 120 * Cm

\* C20: apply_manual_controls, the first thing a tick does, changes nothing
\* but the running flag of equipment in manual mode: the flag of equipment
\* in automatic mode, the levels, the chlorine, both timestamps and
\* manual_controls are as before.
ApplyWritesOnlyManualFlags ==
    [][ (pc = "idle" /\ pc' = "gen_a") =>
           /\ manual_controls' = manual_controls
           /\ [tank_states' EXCEPT !.tank_a.pump_running = FALSE,
                                   !.tank_b.chlorinator_running = FALSE]
                 = [tank_states EXCEPT !.tank_a.pump_running = FALSE,
                                       !.tank_b.chlorinator_running = FALSE]
           /\ ~manual_controls.pump_manual_mode =>
                 tank_states'.tank_a.pump_running = tank_states.tank_a.pump_running
           /\ ~manual_controls.chlorinator_manual_mode =>
                 tank_states'.tank_b.chlorinator_running
                    = tank_states.tank_b.chlorinator_running ]_vars

\* A tick has begun with the pump in manual mode and the chlorinator in
\* automatic mode, running although its manual_state is false.
ApplyLeftAutomaticChlorinator ==
    /\ pc = "gen_a"
    /\ task = "update_readings_cache"
    /\ manual_controls.pump_manual_mode
    /\ ~manual_controls.chlorinator_manual_mode
    /\ ~manual_controls.chlorinator_manual_state
    /\ tank_states.tank_b.chlorinator_running

\* The Readings the status answer is computed from, once it has been computed.
StatusReadings ==
    IF response.op = "api_status"
    THEN {latest_readings_cache[i] : i \in 1..Len(latest_readings_cache)}
    ELSE {}

\* C15: the status of each tank is exactly the one tag the priority low_water
\* (level below 20%), high_water (above 90%), low_chlorine (below 0.5 ppm,
\* Tank B), high_chlorine (above 2.0 ppm, Tank B), normal gives its Reading,
\* no alert standing for normal.
OneTagByPriority ==
    \A reading \in StatusReadings :
        LET tag == IF reading.water_level_percent < 200 THEN "low_water"
                   ELSE IF reading.water_level_percent > 900 THEN "high_water"
                   ELSE IF reading.tank_id = "tank_b" /\ reading.chlorine_ppm * 10 < 5 * Ppm
                   THEN "low_chlorine"
                   ELSE IF reading.tank_id = "tank_b" /\ reading.chlorine_ppm * 10 > 20 * Ppm
                   THEN "high_chlorine"
                   ELSE "normal"
        IN  Alerts(latest_readings_cache, reading.tank_id)
               = IF tag = "normal" THEN {} ELSE {tag}

\* C16: for Tank A and Tank B alike a Reading below 20% is flagged low_water
\* and one above 90% is flagged high_water; a Tank B Reading below 0.5 ppm
\* with a level between the two is flagged low_chlorine.
SameThresholdsForBothTanks ==
    \A reading \in StatusReadings :
        LET alerts == Alerts(latest_readings_cache, reading.tank_id)
        IN  /\ reading.water_level_percent < 200 => "low_water" \in alerts
            /\ reading.water_level_percent > 900 => "high_water" \in alerts
            /\ ( /\ reading.tank_id = "tank_b"
                 /\ reading.water_level_percent >= 200
                 /\ reading.water_level_percent <= 900
                 /\ reading.chlorine_ppm * 10 < 5 * Ppm ) => "low_chlorine" \in alerts

\* C17: every Reading produced, in the list a tick collects, in the cache or
\* returned by an engine call, reports a level within the tank's min_height_cm
\* and max_height_cm, a percentage within 0 and 100, a volume within 0 and
\* capacity_m3, and a chlorine value within 0 and 3.0 ppm.
ReadingsPhysicallyValid ==
    \A reading \in {readings[i] : i \in 1..Len(readings)}
                      \cup {latest_readings_cache[i] : i \in 1..Len(latest_readings_cache)} :
        LET config == TANK_CONFIGS[reading.tank_id]
        IN  /\ config.min_height_cm <= reading.water_level_cm
            /\ reading.water_level_cm <= config.max_height_cm
            /\ 0 <= reading.water_level_percent
            /\ reading.water_level_percent <= 1000
            /\ 0 <= reading.water_volume_m3
            /\ reading.water_volume_m3 <= config.capacity_m3 * 100
            /\ reading.tank_id = "tank_b" =>
                  (0 <= reading.chlorine_ppm /\ reading.chlorine_ppm <= 3 * Ppm)

\* C21: last_pump_cycle changes only in a step of Tank A that finds the pump
\* off and leaves it on, and last_chlorine_dose only in a step of Tank B that
\* finds the chlorinator off and leaves it on: a step that does not flip the
\* flag, apply_manual_controls and the command handlers leave them as they are.
TimestampsOnlyOnFlip ==
    [][ /\ tank_states'.tank_a.last_pump_cycle # tank_states.tank_a.last_pump_cycle
              => /\ TankAStep
                 /\ ~tank_states.tank_a.pump_running
                 /\ tank_states'.tank_a.pump_running
        /\ tank_states'.tank_b.last_chlorine_dose # tank_states.tank_b.last_chlorine_dose
              => /\ TankBStep
                 /\ ~tank_states.tank_b.chlorinator_running
                 /\ tank_states'.tank_b.chlorinator_running ]_vars

\* A step of Tank A at or above 85% with the pump already running has left
\* last_pump_cycle at the constructor's time.
RunningPumpKeepsCycleTime ==
    /\ AfterAStep
    /\ locals.pump_should_run
    /\ tank_states.tank_a.pump_running
    /\ tank_states.tank_a.last_pump_cycle < 0

\* C22: every flip of a running flag in a step, from off to on and from on to
\* off, of the pump and of the chlorinator, sets the item's last-change
\* timestamp to the time of the step.
EveryFlipStampsTheTime ==
    [][ /\ (TankAStep /\ tank_states'.tank_a.pump_running # tank_states.tank_a.pump_running)
              => tank_states'.tank_a.last_pump_cycle = now'
        /\ (TankBStep /\ tank_states'.tank_b.chlorinator_running
                            # tank_states.tank_b.chlorinator_running)
              => tank_states'.tank_b.last_chlorine_dose = now' ]_vars

\* C23: in automatic mode a step of Tank B tests the chlorine value it has
\* after the decay of the step and before any dosing; it leaves the
\* chlorinator on when that value is below 0.8 ppm, off when it is above
\* 1.5 ppm, and as it found it for every value from 0.8 to 1.5 ppm.
ChlorinatorHysteresis ==
    [][ (TankBStep /\ ~manual_controls.chlorinator_manual_mode) =>
            LET before == tank_states.tank_b.chlorinator_running
                after == tank_states'.tank_b.chlorinator_running
                tested == locals'.current_chlorine
            IN  /\ tank_states.tank_b.chlorine_ppm - tested
                      \in {decay * locals'.time_delta_minutes : decay \in DecayRate}
                /\ tested * 10 < 8 * Ppm => after
                /\ tested * 10 > 15 * Ppm => ~after
                /\ (tested * 10 >= 8 * Ppm /\ tested * 10 <= 15 * Ppm) => after = before ]_vars

\* In automatic mode a step of Tank B that tested a value between the two
\* thresholds has left a chlorinator running that ran before the step.
ChlorinatorKeptRunningInDeadband ==
    /\ AfterBStep
    /\ ~manual_controls.chlorinator_manual_mode
    /\ tank_states.tank_b.chlorinator_running
    /\ tank_states.tank_b.last_chlorine_dose < 0
    /\ locals.current_chlorine * 10 >= 8 * Ppm
    /\ locals.current_chlorine * 10 <= 15 * Ppm

\* The Reading the last generate_tank_reading call returned.
LastReading == readings[Len(readings)]

\* C24: after a step the measured value the step returns differs from the
\* value it has stored by at most the noise (2 cm for Tank A, 3 cm for Tank
\* B, 0.05 ppm for chlorine), and the stored value has moved from the one the
\* step started from by no more than the rates of the step allow, whatever
\* the noise.
NoiseStaysOutOfState ==
    [][ LET td == locals'.time_delta_minutes
            level_a == tank_states.tank_a.current_level_cm
            level_b == tank_states.tank_b.current_level_cm
            chlorine == tank_states.tank_b.chlorine_ppm
        IN  /\ TankAStep =>
                  /\ locals'.measured_level - tank_states'.tank_a.current_level_cm <= 2 * Cm
                  /\ tank_states'.tank_a.current_level_cm - locals'.measured_level <= 2 * Cm
                  /\ tank_states'.tank_a.current_level_cm - level_a <= 50 * 13 * td
                  /\ level_a - tank_states'.tank_a.current_level_cm <= 80 * 10 * td
            /\ TankBStep =>
                  /\ locals'.measured_level - tank_states'.tank_b.current_level_cm <= 3 * Cm
                  /\ tank_states'.tank_b.current_level_cm - locals'.measured_level <= 3 * Cm
                  /\ tank_states'.tank_b.current_level_cm - level_b <= 60 * 10 * td
                  /\ level_b - tank_states'.tank_b.current_level_cm <= 3 * 10 * 12 * td
                  /\ locals'.measured_chlorine - tank_states'.tank_b.chlorine_ppm
                        <= (5 * Ppm) \div 100
                  /\ tank_states'.tank_b.chlorine_ppm - locals'.measured_chlorine
                        <= (5 * Ppm) \div 100
                  /\ tank_states'.tank_b.chlorine_ppm - chlorine <= 50 * td
                  /\ chlorine - tank_states'.tank_b.chlorine_ppm <= 10 * td ]_vars

\* A tick's step of Tank A has returned a level 2 cm above the one it stored.
MeasuredAboveStored ==
    /\ pc = "gen_b"
    /\ task = "update_readings_cache"
    /\ locals.time_delta_minutes = 1
    /\ locals.measured_level = tank_states.tank_a.current_level_cm + 2 * Cm

\* C25: in the Reading a step returns, water_level_cm, water_level_percent
\* and water_volume_m3 are the measured level of the step, the measured level
\* over max_height_cm times 100, and capacity_m3 times the measured level
\* over max_height_cm, each to the rounding of its field, for both tanks.
DerivedFieldsFromMeasuredLevel ==
    (AfterAStep \/ AfterBStep) =>
        LET config == TANK_CONFIGS[LastReading.tank_id]
            measured == locals.measured_level
            hundredth_cm == Cm \div 100
            tenth_percent == config.max_height_cm \div 1000
            hundredth_m3 == config.max_height_cm \div (config.capacity_m3 * 100)
        IN  /\ 2 * (LastReading.water_level_cm - measured) <= hundredth_cm
            /\ 2 * (measured - LastReading.water_level_cm) <= hundredth_cm
            /\ 2 * (LastReading.water_level_percent * tenth_percent - measured) <= tenth_percent
            /\ 2 * (measured - LastReading.water_level_percent * tenth_percent) <= tenth_percent
            /\ 2 * (LastReading.water_volume_m3 * hundredth_m3 - measured) <= hundredth_m3
            /\ 2 * (measured - LastReading.water_volume_m3 * hundredth_m3) <= hundredth_m3

\* A step of Tank B has returned a Reading whose level is not the stored one
\* and not a whole number of hundredths of a centimetre before rounding.
ReadingOfNoisyLevel ==
    /\ AfterBStep
    /\ LastReading.tank_id = "tank_b"
    /\ locals.measured_level # tank_states.tank_b.current_level_cm
    /\ LastReading.water_level_cm # locals.measured_level
    /\ LastReading.water_level_percent > 0

\* C26: the outflow of a step of Tank B is the tank's normal_consumption_rate,
\* 8.0, times the multiplier of the hour, times a variation from 0.8 to 1.2,
\* for the minutes of the step.
TankBOutflowFromConfiguredRate ==
    AfterBStep =>
        \E variation \in 8..12 :
            locals.level_decrease * 10
               = TANK_CONFIGS.tank_b.normal_consumption_rate
                    * consumption_patterns[env.hour] * variation * locals.time_delta_minutes

\* C27: a step of Tank A in which the pump runs during the update of the level
\* leaves the stored level lower than it found it, or at min_height_cm.
RunningPumpLowersTankA ==
    [][ (TankAStep /\ tank_states'.tank_a.pump_running) =>
           \/ tank_states'.tank_a.current_level_cm < tank_states.tank_a.current_level_cm
           \/ tank_states'.tank_a.current_level_cm = TANK_CONFIGS.tank_a.min_height_cm ]_vars

\* C28: the profile has a multiplier from 0.1 to 1.0 for each hour 0..23, the
\* hour of the run among them; the outflow of every step of Tank B is above
\* 0, and a step of Tank B made while Tank A's pump is not running does not
\* raise the stored level of Tank B.
TankBNeverRisesWithoutPump ==
    [][ /\ \A hour \in 0..23 :
              /\ hour \in DOMAIN consumption_patterns
              /\ consumption_patterns[hour] >= 1
              /\ consumption_patterns[hour] <= 10
        /\ env.hour \in 0..23
        /\ TankBStep =>
              /\ locals'.level_decrease > 0
              /\ ~tank_states.tank_a.pump_running =>
                    tank_states'.tank_b.current_level_cm
                       <= tank_states.tank_b.current_level_cm ]_vars

\* A step of Tank B made with the pump off has taken no inflow and has
\* lowered the stored level.
TankBLoweredWithoutPump ==
    /\ AfterBStep
    /\ ~tank_states.tank_a.pump_running
    /\ locals.level_increase = 0
    /\ locals.level_decrease > 0
    /\ tank_states.tank_b.current_level_cm < 200 * Cm
    /\ tank_states.tank_b.current_level_cm > 30 * Cm

\* C29: the chlorine_status of the Reading a step of Tank B returns is low
\* exactly when the measured chlorine of the step is below 0.5 ppm, high
\* exactly when it is above 2.0 ppm, and normal otherwise; a Reading of Tank A
\* has no chlorine field.
ChlorineStatusOfMeasuredValue ==
    /\ AfterBStep =>
          /\ (LastReading.chlorine_status = "low") = (locals.measured_chlorine * 10 < 5 * Ppm)
          /\ (LastReading.chlorine_status = "high") = (locals.measured_chlorine * 10 > 20 * Ppm)
          /\ LastReading.chlorine_status \in {"low", "high", "normal"}
    /\ \A reading \in {readings[i] : i \in 1..Len(readings)}
                         \cup {latest_readings_cache[i] : i \in 1..Len(latest_readings_cache)} :
          reading.tank_id = "tank_a" =>
             DOMAIN reading \cap {"chlorine_ppm", "chlorine_status", "chlorinator_status"} = {}

\* A step of a day has dosed the chlorine to above 2.0 ppm and returned a
\* Reading of Tank B with chlorine_status high.
HighChlorineReading ==
    /\ AfterBStep
    /\ locals.time_delta_minutes > 1
    /\ LastReading.chlorine_status = "high"
    /\ tank_states.tank_b.chlorinator_running

PumpStatusOfReading ==
    /\ AfterAStep =>
          /\ LastReading.tank_id = "tank_a"
          /\ LastReading.pump_status = tank_states.tank_a.pump_running
    /\ AfterBStep =>
          /\ LastReading.tank_id = "tank_b"
          /\ ~LastReading.pump_status

\* A step of Tank B has taken the inflow of Tank A's running pump and has
\* returned a Reading with pump_status false.
TankBReadingWhilePumpFills ==
    /\ AfterBStep
    /\ tank_states.tank_a.pump_running
    /\ locals.level_increase > 0
    /\ ~LastReading.pump_status

\* C36: the auto command, whichever way the client takes to it, leaves both
\* pump_manual_mode and chlorinator_manual_mode false, and leaves
\* pump_manual_state, chlorinator_manual_state and the engine's tank_states
\* (running flags, levels, chlorine) as they were.
AutoReturnsBothToAutomatic ==
    [][ (commands' = commands + 1 /\ response'.op = "set_automatic_mode") =>
              /\ ~manual_controls'.pump_manual_mode
              /\ ~manual_controls'.chlorinator_manual_mode
              /\ manual_controls'.pump_manual_state = manual_controls.pump_manual_state
              /\ manual_controls'.chlorinator_manual_state
                    = manual_controls.chlorinator_manual_state
              /\ tank_states' = tank_states ]_vars

\* The 'auto' action of controlar_bomba has been handled with the chlorinator
\* in manual mode, on: the chlorinator is in automatic mode, still running.
PumpAutoFreedTheChlorinator ==
    /\ response.op = "set_automatic_mode"
    /\ response.arg = "controlar_bomba"
    /\ ~manual_controls.chlorinator_manual_mode
    /\ manual_controls.chlorinator_manual_state
    /\ tank_states.tank_b.chlorinator_running
    /\ commands = 2

\* C37: a pump on/off command leaves chlorinator_manual_mode,
\* chlorinator_manual_state, the chlorinator's last manual action and
\* chlorinator_running as they were, a chlorinator on/off command leaves the
\* pump's four as they were, and neither changes a level, the chlorine value
\* or a last-change timestamp.
CommandsKeepTheOtherEquipment ==
    [][ LET pump_command == /\ commands' = commands + 1
                            /\ response'.op \in {"turn_pump_on", "turn_pump_off"}
            chlorinator_command == /\ commands' = commands + 1
                                   /\ response'.op \in {"turn_chlorinator_on",
                                                        "turn_chlorinator_off"}
        IN  /\ pump_command =>
                  /\ manual_controls'.chlorinator_manual_mode
                        = manual_controls.chlorinator_manual_mode
                  /\ manual_controls'.chlorinator_manual_state
                        = manual_controls.chlorinator_manual_state
                  /\ manual_controls'.last_manual_action.chlorinator
                        = manual_controls.last_manual_action.chlorinator
                  /\ tank_states'.tank_b = tank_states.tank_b
            /\ chlorinator_command =>
                  /\ manual_controls'.pump_manual_mode = manual_controls.pump_manual_mode
                  /\ manual_controls'.pump_manual_state = manual_controls.pump_manual_state
                  /\ manual_controls'.last_manual_action.pump
                        = manual_controls.last_manual_action.pump
                  /\ tank_states'.tank_a = tank_states.tank_a
            /\ (pump_command \/ chlorinator_command) =>
                  /\ [tank_states' EXCEPT !.tank_a.pump_running = FALSE,
                                          !.tank_b.chlorinator_running = FALSE]
                        = [tank_states EXCEPT !.tank_a.pump_running = FALSE,
                                              !.tank_b.chlorinator_running = FALSE] ]_vars

\* The pump has been turned off by command while the chlorinator is in manual
\* mode, on and running.
PumpOffBesideManualChlorinator ==
    /\ response.op = "turn_pump_off"
    /\ manual_controls.pump_manual_mode
    /\ ~tank_states.tank_a.pump_running
    /\ manual_controls.chlorinator_manual_mode
    /\ manual_controls.chlorinator_manual_state
    /\ manual_controls.last_manual_action.chlorinator.action = "turn_on"
    /\ tank_states.tank_b.chlorinator_running

\* The endpoints that read, by the op of their answer.
ReadOps == {"api_readings", "api_status", "control_status", "health", "get_tank_data"}

\* The pump_status and the chlorinator_status GET /api/readings serves.
ServedStatus ==
    [i \in 1..Len(CurrentReadings.readings) |->
        [pump_status |-> CurrentReadings.readings[i].pump_status,
         chlorinator_status |->
            IF "chlorinator_status" \in DOMAIN CurrentReadings.readings[i]
            THEN CurrentReadings.readings[i].chlorinator_status
            ELSE FALSE]]

\* C34: a command handler leaves latest_readings_cache and last_update as
\* they were, so the pump_status and chlorinator_status GET /api/readings
\* serves change only when a tick stores its Readings, while the
\* control_modes of the same answer and the current_states of
\* GET /api/control/status show the command as soon as it is handled.
CommandsShowOnlyInControlFields ==
    [][ /\ commands' = commands + 1 =>
              /\ latest_readings_cache' = latest_readings_cache
              /\ last_update' = last_update
              /\ response'.op \in {"turn_pump_on", "turn_pump_off"} =>
                    /\ CurrentReadings'.control_modes.pump_mode = "manual"
                    /\ ControlStatus'.current_states.pump_running
                          = (response'.op = "turn_pump_on")
              /\ response'.op \in {"turn_chlorinator_on", "turn_chlorinator_off"} =>
                    /\ CurrentReadings'.control_modes.chlorinator_mode = "manual"
                    /\ ControlStatus'.current_states.chlorinator_running
                          = (response'.op = "turn_chlorinator_on")
              /\ response'.op = "set_automatic_mode" =>
                    /\ CurrentReadings'.control_modes.pump_mode = "automatic"
                    /\ CurrentReadings'.control_modes.chlorinator_mode = "automatic"
        /\ ServedStatus' # ServedStatus => (pc = "store" /\ pc' = "idle") ]_vars

\* The pump has been turned on by command since the last tick: the control
\* status shows it running, in manual mode, and the Reading served still
\* says it is off.
CommandNotYetInReadings ==
    /\ response.op = "turn_pump_on"
    /\ ControlStatus.current_states.pump_running
    /\ CurrentReadings.control_modes.pump_mode = "manual"
    /\ CurrentReadings.tanks_count = 2
    /\ ~ServedStatus[1].pump_status

\* C39: GET /api/readings, /api/status, /api/control/status and /health, and
\* GET /api/tank/{tank_id} once startup is over, leave the engine's
\* tank_states, manual_controls, the cache, last_update and the time as they
\* were, and with them every answer of a read endpoint; GET /api/tank for
\* tank_a or tank_b is answered from the cache.
ReadEndpointsArePure ==
    [][ (pc = "idle" /\ response'.op \in ReadOps) =>
            /\ tank_states' = tank_states
            /\ manual_controls' = manual_controls
            /\ latest_readings_cache' = latest_readings_cache
            /\ last_update' = last_update
            /\ now' = now
            /\ CurrentReadings' = CurrentReadings
            /\ ControlStatus' = ControlStatus
            /\ Health' = Health
            /\ Alerts(latest_readings_cache', "tank_a") = Alerts(latest_readings_cache, "tank_a")
            /\ (response'.op = "get_tank_data" /\ response'.arg \in {"tank_a", "tank_b"})
                  => response'.source = "cache" ]_vars

\* GET /api/tank/tank_b has been answered, from the cache, with the engine
\* past the Reading cached: a command has set a running flag since.
TankAnsweredFromCache ==
    /\ response.op = "get_tank_data"
    /\ response.arg = "tank_b"
    /\ response.source = "cache"
    /\ Health.readings_cached = 2
    /\ commands > 0
    /\ tank_states.tank_b.chlorinator_running # latest_readings_cache[2].chlorinator_status

\* C35: a tick that raises leaves latest_readings_cache and last_update as
\* the last tick that completed stored them: the cache still holds the two
\* Readings, Tank A's then Tank B's, never none or one.
FailedTickKeepsTheCache ==
    [][ failures' > failures =>
            /\ latest_readings_cache' = latest_readings_cache
            /\ last_update' = last_update
            /\ Len(latest_readings_cache') = 2
            /\ latest_readings_cache'[1].tank_id = "tank_a"
            /\ latest_readings_cache'[2].tank_id = "tank_b"
            /\ latest_readings_cache'[1].timestamp = last_update'
            /\ latest_readings_cache'[2].timestamp = last_update' ]_vars

\* A tick has raised after its step of Tank A: the engine has moved on, the
\* cache and last_update are those of the tick before.
CacheOfTheTickBefore ==
    /\ failures = 1
    /\ pc = "idle"
    /\ delay = ErrorBackoff
    /\ last_update < now
    /\ Len(latest_readings_cache) = 2
    /\ latest_readings_cache[1].timestamp = last_update
    /\ RoundedLevel(locals.measured_level) > latest_readings_cache[1].water_level_cm

ChlorinatorCyclesForever ==
    /\ [][ LET before == tank_states.tank_b
               after == tank_states'.tank_b
           IN  /\ ~after.chlorinator_running => after.chlorine_ppm < before.chlorine_ppm
               /\ after.chlorinator_running => after.chlorine_ppm > before.chlorine_ppm
               /\ (before.chlorinator_running /\ ~after.chlorinator_running)
                     => before.chlorine_ppm * 10 > 15 * Ppm
               /\ (~before.chlorinator_running /\ after.chlorinator_running)
                     => before.chlorine_ppm * 10 < 8 * Ppm + 10 * 10 * DefaultMinutes ]_vars
    /\ []<>tank_states.tank_b.chlorinator_running
    /\ []<>~tank_states.tank_b.chlorinator_running

\* The chlorinator has been switched on in this run and off again, above 1.5 ppm.
ChlorinatorOffAfterDosing ==
    /\ ~tank_states.tank_b.chlorinator_running
    /\ tank_states.tank_b.last_chlorine_dose = now
    /\ tank_states.tank_b.chlorine_ppm * 10 > 15 * Ppm - 10 * 10 * DefaultMinutes

\* C32: with the pump in automatic mode, no command and ticks that keep
\* happening, a step that leaves the pump off raises Tank A's level, a step
\* that starts with the pump off switches it on exactly when it starts with
\* the level at or above 85% of max_height_cm, and a pump that is off is
\* eventually switched on.
PumpEventuallySwitchedOn ==
    /\ [][ LET before == tank_states.tank_a
               after == tank_states'.tank_a
           IN  /\ (~before.pump_running /\ ~after.pump_running)
                     => after.current_level_cm > before.current_level_cm
               /\ ~before.pump_running
                     => (after.pump_running
                            <=> before.current_level_cm * 100
                                   >= TANK_CONFIGS.tank_a.max_height_cm * 85) ]_vars
    /\ (~tank_states.tank_a.pump_running) ~> tank_states.tank_a.pump_running

\* The pump has been switched on in this run, by a step that started at or
\* above 85% and below 85% plus one step of the largest inflow.
PumpSwitchedOnAtUpperThreshold ==
    /\ tank_states.tank_a.pump_running
    /\ tank_states.tank_a.last_pump_cycle = now
    /\ tank_states.tank_a.current_level_cm >= 153 * Cm - 8 * 10 * 10 * DefaultMinutes
    /\ tank_states.tank_a.current_level_cm < 153 * Cm + 2 * 650 * DefaultMinutes

====
